---- MODULE Spec2Model ----
(***************************************************************************)
(* A model of m3u8_parser (src/src/lib.rs, src/src/error.rs): the nom      *)
(* combinators of the tag-line scanner and attribute-list parser, the      *)
(* master playlist builder read_playlist, the media playlist builder       *)
(* read_media_list and the serializer MediaList::save.                     *)
(*                                                                         *)
(* Text is a TLA+ string; a character is a string of length one.  The      *)
(* parsers are operators on strings that return what the nom parser        *)
(* returns: on success the remaining input and the output, on failure the  *)
(* input at the point of failure and the nom ErrorKind.                    *)
(***************************************************************************)
EXTENDS Integers, Sequences, FiniteSets, TLC

(***************************************************************************)
(* Strings (std::str) and Option                                           *)
(***************************************************************************)
Ch(s, i) == SubSeq(s, i, i)

Take(s, n) == SubSeq(s, 1, n)

Drop(s, n) == SubSeq(s, n + 1, Len(s))

StartsWith(s, p) == Len(s) >= Len(p) /\ Take(s, Len(p)) = p

EndsWith(s, p) == Len(s) >= Len(p) /\ Drop(s, Len(s) - Len(p)) = p

None == << >>

Some(x) == << x >>

\* str::trim_start_matches(pat): removes every leading repetition of pat
RECURSIVE trim_start_matches(_, _)
trim_start_matches(s, pat) ==
    IF StartsWith(s, pat) THEN trim_start_matches(Drop(s, Len(pat)), pat) ELSE s

\* position of the first "\n" at or after position n+1, or 0 when there is none
RECURSIVE FindNewline(_, _)
FindNewline(s, n) ==
    IF n >= Len(s) THEN 0
    ELSE IF Ch(s, n + 1) = "\n" THEN n + 1
    ELSE FindNewline(s, n + 1)

\* what str::lines does to one piece cut by split_inclusive('\n'): a piece
\* without its "\n" (the last one) is kept whole, otherwise the "\n" and one
\* "\r" before it are removed
StripLineEnding(piece) ==
    IF ~EndsWith(piece, "\n") THEN piece
    ELSE LET l == Take(piece, Len(piece) - 1)
         IN  IF EndsWith(l, "\r") THEN Take(l, Len(l) - 1) ELSE l

\* str::lines, collected: the sequence of lines the iterator yields
RECURSIVE lines(_)
lines(s) ==
    IF s = "" THEN << >>
    ELSE LET p == FindNewline(s, 0)
         IN  IF p = 0 THEN << StripLineEnding(s) >>
             ELSE << StripLineEnding(Take(s, p)) >> \o lines(Drop(s, p))

(***************************************************************************)
(* nom combinators (complete versions) and M3U8ParserError                 *)
(***************************************************************************)
POk(rest, out) == [ok |-> TRUE, rest |-> rest, out |-> out, code |-> ""]

\* nom::Err::Error(nom::error::Error { input, code })
PErr(input, code) == [ok |-> FALSE, rest |-> input, out |-> "", code |-> code]

\* M3U8ParserError::NomError(input, kind), through From<nom::error::Error<I>>
NomError(input, code) == [kind |-> "NomError", input |-> input, code |-> code]

ParseIntError == [kind |-> "ParseIntError", input |-> "", code |-> ""]

ParseFloatError == [kind |-> "ParseFloatError", input |-> "", code |-> ""]

IoError == [kind |-> "IoError", input |-> "", code |-> ""]

NoError == [kind |-> "", input |-> "", code |-> ""]

\* nom::bytes::complete::tag(t)
tag(t, i) == IF StartsWith(i, t) THEN POk(Drop(i, Len(t)), t) ELSE PErr(i, "Tag")

\* nom::character::complete::char(c)
char(c, i) == IF StartsWith(i, c) THEN POk(Drop(i, 1), c) ELSE PErr(i, "Char")

\* length of the longest prefix of i, from position n+1 on, free of the characters of stop
RECURSIVE SpanNot(_, _, _)
SpanNot(stop, i, n) ==
    IF n < Len(i) /\ Ch(i, n + 1) \notin stop THEN SpanNot(stop, i, n + 1) ELSE n

\* nom::bytes::complete::is_not(stop): at least one character is required
is_not(stop, i) ==
    LET n == SpanNot(stop, i, 0)
    IN  IF n = 0 THEN PErr(i, "IsNot") ELSE POk(Drop(i, n), Take(i, n))

not_newline(i) == is_not({"\n"}, i)

\* ext_identifier without the newline in its tag
ext_identifier_without_newline(i) == tag("#EXTM3U", i)

ext_identifier(i) == tag("#EXTM3U\n", i)

\* ext_type_str that also takes a line without the "#EXT" prefix
ext_type_str_prefix_optional(i) ==
    LET t == tag("#EXT", i)
        r == IF t.ok THEN t.rest ELSE i
        name  == is_not({":"}, r)
        colon == char(":", name.rest)
    IN  IF name.ok /\ colon.ok THEN POk(colon.rest, name.out)
        ELSE not_newline(r)

\* the parser part of ext_type: the raw tag name and the remainder of the line
ext_type_str(i) ==
    LET t == tag("#EXT", i)
    IN  IF ~t.ok THEN t
        ELSE LET name  == is_not({":"}, t.rest)
                 colon == char(":", name.rest)
             IN  IF name.ok /\ colon.ok THEN POk(colon.rest, name.out)
                 ELSE not_newline(t.rest)

comma_sep_pair(i) ==
    LET a == is_not({","}, i)
        c == tag(",", a.rest)
        b == not_newline(c.rest)
    IN  IF ~a.ok THEN a
        ELSE IF ~c.ok THEN c
        ELSE IF ~b.ok THEN b
        ELSE POk(b.rest, << a.out, b.out >>)

read_quoted_attribute(i) ==
    LET q1   == char("\"", i)
        body == is_not({"\""}, q1.rest)
        q2   == char("\"", body.rest)
    IN  IF ~q1.ok THEN q1
        ELSE IF ~body.ok THEN body
        ELSE IF ~q2.ok THEN q2
        ELSE POk(q2.rest, Take(i, Len(i) - Len(q2.rest)))

\* attribute_key_val without read_quoted_attribute in its alt
attribute_key_val_unquoted(i) ==
    LET k  == is_not({"="}, i)
        e  == tag("=", k.rest)
        v  == is_not({","}, e.rest)
    IN  IF ~k.ok THEN k
        ELSE IF ~e.ok THEN e
        ELSE IF ~v.ok THEN v
        ELSE POk(v.rest, << k.out, v.out >>)

attribute_key_val(i) ==
    LET k  == is_not({"="}, i)
        e  == tag("=", k.rest)
        q  == read_quoted_attribute(e.rest)
        v  == IF q.ok THEN q ELSE is_not({","}, e.rest)
    IN  IF ~k.ok THEN k
        ELSE IF ~e.ok THEN e
        ELSE IF ~v.ok THEN v
        ELSE POk(v.rest, << k.out, v.out >>)

\* nom::multi::separated_list0(char(','), attribute_key_val), after the first
\* element: acc holds the pairs parsed so far, i the input after the last pair
RECURSIVE separated_list_more(_, _)
separated_list_more(i, acc) ==
    LET s == char(",", i)
        p == attribute_key_val(s.rest)
    IN  IF ~s.ok THEN POk(i, acc)
        ELSE IF ~p.ok THEN POk(i, acc)
        ELSE separated_list_more(p.rest, Append(acc, p.out))

separated_list0(i) ==
    LET p == attribute_key_val(i)
    IN  IF ~p.ok THEN POk(i, << >>)
        ELSE separated_list_more(p.rest, << p.out >>)

(***************************************************************************)
(* IndexMap<&str, &str>: a sequence of <<key, value>> with distinct keys   *)
(***************************************************************************)
IndexOfKey(m, k) ==
    IF \E j \in 1..Len(m) : m[j][1] = k
    THEN CHOOSE j \in 1..Len(m) : m[j][1] = k
    ELSE 0

\* insert that removes an existing key and appends it again
insert_moved_to_end(m, k, v) ==
    Append(SelectSeq(m, LAMBDA kv : kv[1] # k), << k, v >>)

\* IndexMap::insert: an existing key keeps its slot and gets the new value
insert(m, k, v) ==
    LET j == IndexOfKey(m, k)
    IN  IF j = 0 THEN Append(m, << k, v >>)
        ELSE [m EXCEPT ![j] = << k, v >>]

\* IndexMap::get
get(m, k) ==
    LET j == IndexOfKey(m, k)
    IN  IF j = 0 THEN None ELSE Some(m[j][2])

RECURSIVE FoldInsert(_, _)
FoldInsert(m, pairs) ==
    IF pairs = << >> THEN m
    ELSE FoldInsert(insert(m, pairs[1][1], pairs[1][2]), Tail(pairs))

\* attributes after its separated_list0 call returned l: the ? and the fold
attributes_fold(l) ==
    IF ~l.ok THEN l ELSE POk(l.rest, FoldInsert(<< >>, l.out))

attributes(i) == attributes_fold(separated_list0(i))

(***************************************************************************)
(* Numbers: str::parse::<u8>, ::<u32>, ::<f64> and their Display           *)
(***************************************************************************)
Digits == "0123456789"

IsDigit(c) == \E d \in 1..10 : Ch(Digits, d) = c

DigitVal(c) == (CHOOSE d \in 1..10 : Ch(Digits, d) = c) - 1

AllDigits(s) == \A j \in 1..Len(s) : IsDigit(Ch(s, j))

\* the numeral without its leading zeros ("0" for zero)
RECURSIVE StripZeros(_)
StripZeros(s) ==
    IF Len(s) > 1 /\ Ch(s, 1) = "0" THEN StripZeros(Drop(s, 1)) ELSE s

\* a <= b for numerals of the same length
RECURSIVE NumeralLeqSameLen(_, _)
NumeralLeqSameLen(a, b) ==
    IF a = "" THEN TRUE
    ELSE IF DigitVal(Ch(a, 1)) < DigitVal(Ch(b, 1)) THEN TRUE
    ELSE IF DigitVal(Ch(a, 1)) > DigitVal(Ch(b, 1)) THEN FALSE
    ELSE NumeralLeqSameLen(Drop(a, 1), Drop(b, 1))

NumeralLeq(a, b) ==
    \/ Len(a) < Len(b)
    \/ Len(a) = Len(b) /\ NumeralLeqSameLen(a, b)

\* the value of a numeral that fits the model's integers
RECURSIVE NumeralVal(_, _)
NumeralVal(s, acc) ==
    IF s = "" THEN acc ELSE NumeralVal(Drop(s, 1), acc * 10 + DigitVal(Ch(s, 1)))

\* Display of an unsigned integer
RECURSIVE Dec(_)
Dec(n) == IF n < 10 THEN Ch(Digits, n + 1) ELSE Dec(n \div 10) \o Ch(Digits, (n % 10) + 1)

U8Max == "255"

U32Max == "4294967295"

\* <unsigned>::from_str: an optional "+", then one or more digits, the value at
\* most max (a numeral); out is the value as a numeral without leading zeros
ParseUnsigned(s, max) ==
    LET body == IF StartsWith(s, "+") THEN Drop(s, 1) ELSE s
    IN  IF body = "" \/ ~AllDigits(body) THEN PErr(s, "ParseIntError")
        ELSE IF ~NumeralLeq(StripZeros(body), max) THEN PErr(s, "ParseIntError")
        ELSE POk("", StripZeros(body))

\* parse_u8 that wraps a value above 255 (three digits at most, for the
\* integers of the model checker)
parse_u8_wrapping(s) ==
    IF s = "" \/ ~AllDigits(s) \/ Len(s) > 3 THEN PErr(s, "ParseIntError")
    ELSE POk("", NumeralVal(s, 0) % 256)

\* str::parse::<u8>: out is the integer
parse_u8(s) ==
    LET p == ParseUnsigned(s, U8Max)
    IN  IF p.ok THEN POk("", NumeralVal(p.out, 0)) ELSE p

\* str::parse::<u32>: out is the value as a numeral, since 4294967295 exceeds
\* the integers of the model checker; Display of the value is that numeral
parse_u32(s) == ParseUnsigned(s, U32Max)

RECURSIVE Pow10(_)
Pow10(n) == IF n = 0 THEN 1 ELSE 10 * Pow10(n - 1)

\* an f64 that is a non-negative finite decimal: m / 10^e with m not a multiple
\* of 10 unless e = 0 (distinct decimals of at most 15 digits are distinct f64)
RECURSIVE Normalize(_, _)
Normalize(m, e) ==
    IF e > 0 /\ m % 10 = 0 THEN Normalize(m \div 10, e - 1) ELSE [m |-> m, e |-> e]

\* str::parse::<f64> on the decimal forms "d+", "d+.", "d+.d+" and ".d+" with an
\* optional "+"; signs "-", exponents, "inf" and "nan" are outside the model
\* and no input of the model contains them
parse_f64(s) ==
    LET body == IF StartsWith(s, "+") THEN Drop(s, 1) ELSE s
        n    == SpanNot({"."}, body, 0)
        int  == Take(body, n)
        frac == IF n < Len(body) THEN Drop(body, n + 1) ELSE ""
    IN  IF ~AllDigits(int) \/ ~AllDigits(frac) \/ (int = "" /\ frac = "")
        THEN PErr(s, "ParseFloatError")
        ELSE POk("", Normalize(NumeralVal(int \o frac, 0), Len(frac)))

\* m / 10^e rounded to thousandths, as a count of thousandths.  An exact
\* decimal tie is rounded to even here; the f64 nearest to such a decimal may
\* lie on either side of it, and no input of the model is a tie
RoundMilli(v) ==
    IF v.e <= 3 THEN v.m * Pow10(3 - v.e)
    ELSE LET unit == Pow10(v.e - 3)
             q    == v.m \div unit
             r    == v.m % unit
         IN  IF 2 * r > unit \/ (2 * r = unit /\ q % 2 = 1) THEN q + 1 ELSE q

Pad3(n) == IF n < 10 THEN "00" \o Dec(n) ELSE IF n < 100 THEN "0" \o Dec(n) ELSE Dec(n)

\* format!("{:.3}", duration)
format_3(v) ==
    LET t == RoundMilli(v)
    IN  Dec(t \div 1000) \o "." \o Pad3(t % 1000)

(***************************************************************************)
(* PlaylistExtType, MediaExtType                                           *)
(***************************************************************************)
ExtType(t) == [tag |-> t, name |-> ""]

Unknown(s) == [tag |-> "Unknown", name |-> s]

Media == ExtType("Media")

StreamInf == ExtType("StreamInf")

Version == ExtType("Version")

TargetDuration == ExtType("TargetDuration")

MediaSequence == ExtType("MediaSequence")

DateRange == ExtType("DateRange")

Discontinuity == ExtType("Discontinuity")

Inf == ExtType("Inf")

ProgramDateTime == ExtType("ProgramDateTime")

\* impl From<T> for PlaylistExtType
PlaylistExtType_from(raw) ==
    LET s == trim_start_matches(raw, "-X-")
    IN  CASE s = "MEDIA" -> Media
          [] s = "STREAM-INF" -> StreamInf
          [] OTHER -> Unknown(s)

\* impl From<T> for MediaExtType
MediaExtType_from(raw) ==
    LET s == trim_start_matches(raw, "-X-")
    IN  CASE s = "VERSION" -> Version
          [] s = "TARGETDURATION" -> TargetDuration
          [] s = "MEDIA-SEQUENCE" -> MediaSequence
          [] s = "DATERANGE" -> DateRange
          [] s = "DISCONTINUITY" -> Discontinuity
          [] s = "INF" -> Inf
          [] s = "PROGRAM-DATE-TIME" -> ProgramDateTime
          [] OTHER -> Unknown(s)

\* impl fmt::Display for MediaExtType
MediaExtType_fmt(t) ==
    CASE t = Version -> "VERSION"
      [] t = TargetDuration -> "TARGETDURATION"
      [] t = MediaSequence -> "MEDIA-SEQUENCE"
      [] t = DateRange -> "DATERANGE"
      [] t = Discontinuity -> "DISCONTINUITY"
      [] t = Inf -> "INF"
      [] t = ProgramDateTime -> "PROGRAM-DATE-TIME"
      [] OTHER -> t.name

(***************************************************************************)
(* read_playlist and read_media_list                                       *)
(*                                                                         *)
(* The local variables of a running call are a record; err is the error    *)
(* the call returns with, NoError while there is none.                     *)
(***************************************************************************)
PlaylistExtInfo(t, a) == [ext_type |-> t, attributes |-> a]

MediaExtInfo(t, a) == [ext_type |-> t, attributes |-> a]

MediaSegment(d, t, u, p) == [duration |-> d, title |-> t, uri |-> u, program_date_time |-> p]

\* the locals after `let mut remaining_lines = i.lines()` and the declarations
\* that follow it
Locals(ls) ==
    [remaining_lines |-> ls, media_segments |-> << >>, ext_infos |-> << >>,
     version |-> 0, target_duration |-> 0, media_sequence |-> "0",
     current_program_date_time |-> None, err |-> NoError]

\* the locals of a call that failed with e
Failed(L, e) == [L EXCEPT !.err = e]

\* read_playlist_line that reads the line after a STREAM-INF tag line without
\* advancing remaining_lines
read_playlist_line_uri_not_consumed(L) ==
    LET line == Head(L.remaining_lines)
        rest == Tail(L.remaining_lines)
        et   == ext_type_str(line)
        ty   == PlaylistExtType_from(et.out)
        at   == attributes(et.rest)
        uri  == ty = StreamInf /\ rest # << >>
    IN  IF ~et.ok THEN Failed([L EXCEPT !.remaining_lines = rest], NomError(et.rest, et.code))
        ELSE IF ~at.ok THEN Failed([L EXCEPT !.remaining_lines = rest], NomError(at.rest, at.code))
        ELSE [L EXCEPT
                !.remaining_lines = rest,
                !.ext_infos = Append(@, PlaylistExtInfo(ty,
                                  IF uri THEN insert(at.out, "URI", Head(rest)) ELSE at.out))]

\* read_playlist_line that pushes no entry for a STREAM-INF tag line without a
\* line after it
read_playlist_line_dangling_dropped(L) ==
    LET line == Head(L.remaining_lines)
        rest == Tail(L.remaining_lines)
        et   == ext_type_str(line)
        ty   == PlaylistExtType_from(et.out)
        at   == attributes(et.rest)
        uri  == ty = StreamInf /\ rest # << >>
    IN  IF ~et.ok THEN Failed([L EXCEPT !.remaining_lines = rest], NomError(et.rest, et.code))
        ELSE IF ~at.ok THEN Failed([L EXCEPT !.remaining_lines = rest], NomError(at.rest, at.code))
        ELSE IF ty = StreamInf /\ rest = << >> THEN [L EXCEPT !.remaining_lines = rest]
        ELSE [L EXCEPT
                !.remaining_lines = IF uri THEN Tail(rest) ELSE rest,
                !.ext_infos = Append(@, PlaylistExtInfo(ty,
                                  IF uri THEN insert(at.out, "URI", Head(rest)) ELSE at.out))]

\* one iteration of the while loop of read_playlist; L.remaining_lines is not empty
read_playlist_line(L) ==
    LET line == Head(L.remaining_lines)
        rest == Tail(L.remaining_lines)
        et   == ext_type_str(line)
        ty   == PlaylistExtType_from(et.out)
        at   == attributes(et.rest)
        uri  == ty = StreamInf /\ rest # << >>
    IN  IF ~et.ok THEN Failed([L EXCEPT !.remaining_lines = rest], NomError(et.rest, et.code))
        ELSE IF ~at.ok THEN Failed([L EXCEPT !.remaining_lines = rest], NomError(at.rest, at.code))
        ELSE [L EXCEPT
                !.remaining_lines = IF uri THEN Tail(rest) ELSE rest,
                !.ext_infos = Append(@, PlaylistExtInfo(ty,
                                  IF uri THEN insert(at.out, "URI", Head(rest)) ELSE at.out))]

\* the DateRange arm after its attributes call returned at: the ? and the push
date_range_push(M, ty, at) ==
    IF ~at.ok THEN Failed(M, NomError(at.rest, at.code))
    ELSE [M EXCEPT !.ext_infos = Append(@, MediaExtInfo(ty, at.out))]

\* MediaExtType::DateRange => { .. }
date_range_arm(M, ty, i) == date_range_push(M, ty, attributes(i))

\* MediaExtType::Unknown(_) => { .. }
unknown_arm(M, ty, i) ==
    LET unknown_str == not_newline(i)
    IN  IF ~unknown_str.ok THEN Failed(M, NomError(unknown_str.rest, unknown_str.code))
        ELSE [M EXCEPT !.ext_infos =
                  Append(@, MediaExtInfo(ty, insert(<< >>, "UNKNOWN", unknown_str.out)))]

\* program_date_time_arm that also pushes an ext_info for the tag
program_date_time_arm_stored(M, i) ==
    LET program_date_time == not_newline(i)
    IN  IF ~program_date_time.ok
        THEN Failed(M, NomError(program_date_time.rest, program_date_time.code))
        ELSE [M EXCEPT !.current_program_date_time = Some(program_date_time.out),
                       !.ext_infos = Append(@, MediaExtInfo(ProgramDateTime, << >>))]

\* MediaExtType::ProgramDateTime => { .. }
program_date_time_arm(M, i) ==
    LET program_date_time == not_newline(i)
    IN  IF ~program_date_time.ok
        THEN Failed(M, NomError(program_date_time.rest, program_date_time.code))
        ELSE [M EXCEPT !.current_program_date_time = Some(program_date_time.out)]

\* inf_arm that reads current_program_date_time without take()
inf_arm_date_not_taken(M, i) ==
    LET pair     == comma_sep_pair(i)
        rest     == M.remaining_lines
        duration == parse_f64(pair.out[1])
        title    == IF pair.out[2] # "" THEN Some(pair.out[2]) ELSE None
    IN  IF ~pair.ok THEN Failed(M, NomError(pair.rest, pair.code))
        ELSE IF rest = << >> THEN M
        ELSE IF ~duration.ok
             THEN Failed([M EXCEPT !.remaining_lines = Tail(rest)], ParseFloatError)
        ELSE [M EXCEPT
                !.remaining_lines = Tail(rest),
                !.media_segments = Append(@, MediaSegment(duration.out, title, Head(rest),
                                                          M.current_program_date_time))]

\* MediaExtType::Inf => { .. }; M.remaining_lines are the lines after the tag line
inf_arm(M, i) ==
    LET pair     == comma_sep_pair(i)
        rest     == M.remaining_lines
        duration == parse_f64(pair.out[1])
        title    == IF pair.out[2] # "" THEN Some(pair.out[2]) ELSE None
    IN  IF ~pair.ok THEN Failed(M, NomError(pair.rest, pair.code))
        ELSE IF rest = << >> THEN M
        ELSE IF ~duration.ok
             THEN Failed([M EXCEPT !.remaining_lines = Tail(rest)], ParseFloatError)
        ELSE [M EXCEPT
                !.remaining_lines = Tail(rest),
                !.media_segments = Append(@, MediaSegment(duration.out, title, Head(rest),
                                                          M.current_program_date_time)),
                !.current_program_date_time = None]

\* version_arm that keeps a version already set
version_arm_first_wins(M, i) ==
    LET ver == not_newline(i)
        n   == parse_u8(ver.out)
    IN  IF ~ver.ok THEN Failed(M, NomError(ver.rest, ver.code))
        ELSE IF ~n.ok THEN Failed(M, ParseIntError)
        ELSE IF M.version # 0 THEN M
        ELSE [M EXCEPT !.version = n.out]

\* MediaExtType::Version => { .. }
version_arm(M, i) ==
    LET ver == not_newline(i)
        n   == parse_u8(ver.out)
    IN  IF ~ver.ok THEN Failed(M, NomError(ver.rest, ver.code))
        ELSE IF ~n.ok THEN Failed(M, ParseIntError)
        ELSE [M EXCEPT !.version = n.out]

\* MediaExtType::TargetDuration => { .. }
target_duration_arm(M, i) ==
    LET dur == not_newline(i)
        n   == parse_u8(dur.out)
    IN  IF ~dur.ok THEN Failed(M, NomError(dur.rest, dur.code))
        ELSE IF ~n.ok THEN Failed(M, ParseIntError)
        ELSE [M EXCEPT !.target_duration = n.out]

\* MediaExtType::MediaSequence => { .. }
media_sequence_arm(M, i) ==
    LET media_seq == not_newline(i)
        n         == parse_u32(media_seq.out)
    IN  IF ~media_seq.ok THEN Failed(M, NomError(media_seq.rest, media_seq.code))
        ELSE IF ~n.ok THEN Failed(M, ParseIntError)
        ELSE [M EXCEPT !.media_sequence = n.out]

\* MediaExtType::Discontinuity => { .. }
discontinuity_arm(M, ty) ==
    [M EXCEPT !.ext_infos = Append(@, MediaExtInfo(ty, << >>))]

\* one iteration of the while loop of read_media_list; L.remaining_lines is not empty
read_media_list_line(L) ==
    LET line == Head(L.remaining_lines)
        M    == [L EXCEPT !.remaining_lines = Tail(L.remaining_lines)]
        et   == ext_type_str(line)
        ty   == MediaExtType_from(et.out)
        i    == et.rest
    IN  IF ~et.ok THEN Failed(M, NomError(et.rest, et.code))
        ELSE CASE ty = DateRange -> date_range_arm(M, ty, i)
               [] ty.tag = "Unknown" -> unknown_arm(M, ty, i)
               [] ty = ProgramDateTime -> program_date_time_arm(M, i)
               [] ty = Inf -> inf_arm(M, i)
               [] ty = Version -> version_arm(M, i)
               [] ty = TargetDuration -> target_duration_arm(M, i)
               [] ty = MediaSequence -> media_sequence_arm(M, i)
               [] ty = Discontinuity -> discontinuity_arm(M, ty)

\* the first statement of read_playlist and of read_media_list
read_header(data) ==
    LET h == ext_identifier(data)
    IN  IF h.ok THEN Locals(lines(h.rest))
        ELSE Failed(Locals(<< >>), NomError(h.rest, h.code))

\* the struct read_playlist returns from its locals
Playlist(L) == [ext_infos |-> L.ext_infos]

NoPlaylist == Playlist(Locals(<< >>))

RECURSIVE read_playlist_loop(_)
read_playlist_loop(L) ==
    IF L.err # NoError \/ L.remaining_lines = << >> THEN L
    ELSE read_playlist_loop(read_playlist_line(L))

\* read_playlist as a whole: Err(err) when err is not NoError, else Ok(list)
read_playlist_result(L) ==
    [err |-> L.err, list |-> IF L.err = NoError THEN Playlist(L) ELSE NoPlaylist]

\* read_playlist on the whole text
read_playlist(data) == read_playlist_result(read_playlist_loop(read_header(data)))

\* Iterator::find with the closure |e| e.attributes.get(key) == val on the
\* sequence es: the first element whose attribute key has the value val
find(es, key, val) ==
    LET hits == SelectSeq(es, LAMBDA e : get(e.attributes, key) = val)
    IN  IF hits = << >> THEN None ELSE Some(hits[1])

\* playlist_link that takes the first Media entry with that NAME that has a GROUP-ID
playlist_link_media_with_group(P, name) ==
    LET medias  == SelectSeq(P.ext_infos, LAMBDA e : /\ e.ext_type = Media
                                                     /\ get(e.attributes, "GROUP-ID") # None)
        media   == find(medias, "NAME", Some(name))
        playlist_group_id ==
            IF media = None THEN None ELSE get(media[1].attributes, "GROUP-ID")
        streams == SelectSeq(P.ext_infos, LAMBDA e : e.ext_type = StreamInf)
        stream  == find(streams, "VIDEO", playlist_group_id)
    IN  IF playlist_group_id = None THEN None
        ELSE IF stream = None THEN None
        ELSE get(stream[1].attributes, "URI")

\* Playlist::playlist_link(&self, name)
playlist_link(P, name) ==
    LET medias  == SelectSeq(P.ext_infos, LAMBDA e : e.ext_type = Media)
        media   == find(medias, "NAME", Some(name))
        playlist_group_id ==
            IF media = None THEN None ELSE get(media[1].attributes, "GROUP-ID")
        streams == SelectSeq(P.ext_infos, LAMBDA e : e.ext_type = StreamInf)
        stream  == find(streams, "VIDEO", playlist_group_id)
    IN  IF playlist_group_id = None THEN None
        ELSE IF stream = None THEN None
        ELSE get(stream[1].attributes, "URI")

\* the struct read_media_list returns from its locals
MediaList(L) ==
    [version |-> L.version, target_duration |-> L.target_duration,
     media_sequence |-> L.media_sequence, media_segments |-> L.media_segments,
     ext_infos |-> L.ext_infos]

NoMediaList == MediaList(Locals(<< >>))

RECURSIVE read_media_list_loop(_)
read_media_list_loop(L) ==
    IF L.err # NoError \/ L.remaining_lines = << >> THEN L
    ELSE read_media_list_loop(read_media_list_line(L))

\* read_media_list as a whole: Err(err) when err is not NoError, else Ok(list)
read_media_list_result(L) ==
    [err |-> L.err, list |-> IF L.err = NoError THEN MediaList(L) ELSE NoMediaList]

\* read_media_list on the whole text
read_media_list(data) == read_media_list_result(read_media_list_loop(read_header(data)))

(***************************************************************************)
(* MediaList::save                                                         *)
(***************************************************************************)
RECURSIVE Flatten(_)
Flatten(ss) == IF ss = << >> THEN << >> ELSE ss[1] \o Flatten(Tail(ss))

RECURSIVE Join(_, _)
Join(strs, sep) ==
    IF strs = << >> THEN ""
    ELSE IF Len(strs) = 1 THEN strs[1]
    ELSE strs[1] \o sep \o Join(Tail(strs), sep)

rejoin_attributes(attrs) ==
    Join([j \in 1..Len(attrs) |->
             IF attrs[j][1] = "UNKNOWN" THEN attrs[j][2]
             ELSE attrs[j][1] \o "=" \o attrs[j][2]], ",")

\* save_ext_info with Discontinuity in the arm of Inf and ProgramDateTime
save_ext_info_discontinuity_skipped(e) ==
    CASE e.ext_type \in {Inf, ProgramDateTime, Discontinuity} -> << >>
      [] OTHER ->
            << "#EXT" \o "-X-" \o MediaExtType_fmt(e.ext_type) \o ":"
                 \o rejoin_attributes(e.attributes) \o "\n" >>

\* the writeln! calls of the first loop of save for one ext_info
save_ext_info(e) ==
    CASE e.ext_type = Inf \/ e.ext_type = ProgramDateTime -> << >>
      [] e.ext_type = Discontinuity ->
            << "#EXT" \o "-X-" \o MediaExtType_fmt(e.ext_type) \o "\n" >>
      [] OTHER ->
            << "#EXT" \o "-X-" \o MediaExtType_fmt(e.ext_type) \o ":"
                 \o rejoin_attributes(e.attributes) \o "\n" >>

\* save_segment without the PROGRAM-DATE-TIME line
save_segment_without_date(g) ==
    << "#EXT" \o MediaExtType_fmt(Inf) \o ":" \o format_3(g.duration) \o ","
         \o (IF g.title # None THEN g.title[1] ELSE "") \o "\n" \o g.uri \o "\n" >>

\* the writeln! calls of the second loop of save for one segment
save_segment(g) ==
    (IF g.program_date_time # None
     THEN << "#EXT" \o "-X-" \o MediaExtType_fmt(ProgramDateTime) \o ":"
               \o g.program_date_time[1] \o "\n" >>
     ELSE << >>)
    \o << "#EXT" \o MediaExtType_fmt(Inf) \o ":" \o format_3(g.duration) \o ","
            \o (IF g.title # None THEN g.title[1] ELSE "") \o "\n" \o g.uri \o "\n" >>

\* save_writes with the two loops in the other order
save_writes_segments_first(m) ==
    << "#EXTM3U\n",
       "#EXT" \o "-X-VERSION:" \o Dec(m.version) \o "\n",
       "#EXT" \o "-X-TARGETDURATION:" \o Dec(m.target_duration) \o "\n",
       "#EXT" \o "-X-MEDIA-SEQUENCE:" \o m.media_sequence \o "\n" >>
    \o Flatten([j \in 1..Len(m.media_segments) |-> save_segment(m.media_segments[j])])
    \o Flatten([j \in 1..Len(m.ext_infos) |-> save_ext_info(m.ext_infos[j])])

\* the texts save hands to the sink, one per writeln!, when no write fails
save_writes(m) ==
    << "#EXTM3U\n",
       "#EXT" \o "-X-VERSION:" \o Dec(m.version) \o "\n",
       "#EXT" \o "-X-TARGETDURATION:" \o Dec(m.target_duration) \o "\n",
       "#EXT" \o "-X-MEDIA-SEQUENCE:" \o m.media_sequence \o "\n" >>
    \o Flatten([j \in 1..Len(m.ext_infos) |-> save_ext_info(m.ext_infos[j])])
    \o Flatten([j \in 1..Len(m.media_segments) |-> save_segment(m.media_segments[j])])

\* what the sink holds after a save in which every write succeeded
save(m) == Join(save_writes(m), "")

\* save on a sink that accepts the first k-1 writeln! calls and n characters
\* of the k-th and then fails, with the later writeln! calls still made
save_failing_continues(m, k, n) ==
    [written |-> Join(SubSeq(save_writes(m), 1, k - 1), "")
                    \o Take(save_writes(m)[k], n)
                    \o Join(SubSeq(save_writes(m), k + 1, Len(save_writes(m))), ""),
     result |-> IoError]

\* save on a sink that accepts the first k-1 writeln! calls and n characters
\* of the k-th and then fails: write_all has handed the sink the text before
\* the failing write, the ? returns the error and nothing is written after it
save_failing(m, k, n) ==
    [written |-> Join(SubSeq(save_writes(m), 1, k - 1), "") \o Take(save_writes(m)[k], n),
     result |-> IoError]

(***************************************************************************)
(* The caller's filter between parse and save (Vec::retain)                *)
(***************************************************************************)
\* the elements of v at the indices of keep, in their order in v
RECURSIVE SelectAt(_, _, _)
SelectAt(v, keep, j) ==
    IF j > Len(v) THEN << >>
    ELSE (IF j \in keep THEN << v[j] >> ELSE << >>) \o SelectAt(v, keep, j + 1)

\* media_list.media_segments.retain(..); media_list.ext_infos.retain(..) with
\* predicates that accept the segments at keep_segments and the ext_infos at
\* keep_ext_infos
retain(m, keep_segments, keep_ext_infos) ==
    [m EXCEPT !.media_segments = SelectAt(@, keep_segments, 1),
              !.ext_infos = SelectAt(@, keep_ext_infos, 1)]

(***************************************************************************)
(* State                                                                   *)
(***************************************************************************)
VARIABLES
    fn,          \* the parse function called: "read_playlist" or "read_media_list"
    data,        \* its argument
    pc,          \* "call", "loop", "returned", "retained", "saved", "reparsed"
    locals,      \* the local variables of the running call (see Locals)
    media_list,  \* the MediaList the caller holds once read_media_list returned Ok
    playlist,    \* the Playlist the caller holds once read_playlist returned Ok
    output,      \* the sink save writes to
    reparsed,    \* the result of read_media_list on the text in the sink
    save_result, \* what save returned: NoError for Ok(()), else the error
    lookup       \* the argument and the result of the last playlist_link call

vars == << fn, data, pc, locals, media_list, playlist, output, reparsed, save_result, lookup >>

NotReparsed == [err |-> NoError, list |-> NoMediaList]

NoLookup == [name |-> "", link |-> None]

\* the names given to playlist_link: attribute values keep their quotes
LinkNames == { "\"n\"", "\"z\"" }

\* at most n lines of pool, each followed by a newline
RECURSIVE Bodies(_, _)
Bodies(pool, n) ==
    IF n = 0 THEN {""}
    ELSE LET B == Bodies(pool, n - 1)
         IN  B \cup {b \o l \o "\n" : b \in B, l \in pool}

Start(f, texts) ==
    /\ fn = f
    /\ data \in texts
    /\ pc = "call"
    /\ locals = Locals(<< >>)
    /\ media_list = NoMediaList
    /\ playlist = NoPlaylist
    /\ output = ""
    /\ reparsed = NotReparsed
    /\ save_result = NoError
    /\ lookup = NoLookup

(***************************************************************************)
(* Actions                                                                 *)
(***************************************************************************)
\* ext_identifier(&data).finish()? and i.lines()
ReadHeader ==
    /\ pc = "call"
    /\ fn \in {"read_playlist", "read_media_list"}
    /\ locals' = read_header(data)
    /\ pc' = IF locals'.err = NoError THEN "loop" ELSE "returned"
    /\ UNCHANGED << fn, data, media_list, output, reparsed, playlist, save_result, lookup >>

\* one iteration of `while let Some(line) = remaining_lines.next()` in read_playlist
ReadPlaylistLine ==
    /\ pc = "loop"
    /\ fn = "read_playlist"
    /\ locals.remaining_lines # << >>
    /\ locals' = read_playlist_line(locals)
    /\ pc' = IF locals'.err = NoError THEN "loop" ELSE "returned"
    /\ UNCHANGED << fn, data, media_list, output, reparsed, playlist, save_result, lookup >>

\* Ok(Playlist { ext_infos })
ReadPlaylistReturn ==
    /\ pc = "loop"
    /\ fn = "read_playlist"
    /\ locals.remaining_lines = << >>
    /\ pc' = "returned"
    /\ playlist' = Playlist(locals)
    /\ UNCHANGED << fn, data, locals, media_list, output, reparsed, save_result, lookup >>

\* ReadMediaListLine that stays in the loop after an error
ReadMediaListLine_after_error ==
    /\ pc = "loop"
    /\ fn = "read_media_list"
    /\ locals.remaining_lines # << >>
    /\ locals' = read_media_list_line(locals)
    /\ pc' = "loop"
    /\ UNCHANGED << fn, data, media_list, output, reparsed, playlist, save_result, lookup >>

\* one iteration of `while let Some(line) = remaining_lines.next()` in read_media_list
ReadMediaListLine ==
    /\ pc = "loop"
    /\ fn = "read_media_list"
    /\ locals.remaining_lines # << >>
    /\ locals' = read_media_list_line(locals)
    /\ pc' = IF locals'.err = NoError THEN "loop" ELSE "returned"
    /\ UNCHANGED << fn, data, media_list, output, reparsed, playlist, save_result, lookup >>

\* attributes(data): the fold of the parsed pairs into an IndexMap
\* the locals of attributes when it returns at, its separated_list0 call
\* having returned l
AttributesLocals(at, l) ==
    [i |-> at.rest,
     attributes_vec |-> l.out,
     attributes_map |-> at.out,
     err |-> IF at.ok THEN NoError ELSE NomError(at.rest, at.code)]

Attributes ==
    /\ pc = "call"
    /\ fn = "attributes"
    /\ locals' = AttributesLocals(attributes(data), separated_list0(data))
    /\ pc' = "returned"
    /\ UNCHANGED << fn, data, media_list, output, reparsed, playlist, save_result, lookup >>

\* rejoin_attributes(&attributes_map) on the map attributes returned
RejoinAttributes ==
    /\ pc = "returned"
    /\ fn = "attributes"
    /\ output' = rejoin_attributes(locals.attributes_map)
    /\ pc' = "rejoined"
    /\ UNCHANGED << fn, data, locals, media_list, reparsed, playlist, save_result, lookup >>

\* Ok(MediaList { .. })
ReadMediaListReturn ==
    /\ pc = "loop"
    /\ fn = "read_media_list"
    /\ locals.remaining_lines = << >>
    /\ pc' = "returned"
    /\ media_list' = MediaList(locals)
    /\ UNCHANGED << fn, data, locals, output, reparsed, playlist, save_result, lookup >>

\* the caller removes segments and ext_infos, as test_save_media_list does
Retain ==
    /\ pc = "returned"
    /\ fn = "read_media_list"
    /\ locals.err = NoError
    /\ \E ks \in SUBSET (1..Len(media_list.media_segments)),
          ke \in SUBSET (1..Len(media_list.ext_infos)) :
            media_list' = retain(media_list, ks, ke)
    /\ pc' = "retained"
    /\ UNCHANGED << fn, data, locals, output, reparsed, playlist, save_result, lookup >>

\* media_list.save(&mut sink) on a sink that accepts every write
Save ==
    /\ pc \in {"returned", "retained"}
    /\ fn = "read_media_list"
    /\ locals.err = NoError
    /\ output' = save(media_list)
    /\ save_result' = NoError
    /\ pc' = "saved"
    /\ UNCHANGED << fn, data, locals, media_list, reparsed, playlist, lookup >>

\* media_list.save(&mut sink) on a sink that fails in the k-th writeln! after
\* it took n characters of it (fewer than all: the failing write took none)
SaveSinkFails ==
    /\ pc \in {"returned", "retained"}
    /\ fn = "read_media_list"
    /\ locals.err = NoError
    /\ \E k \in 1..Len(save_writes(media_list)) :
          \E n \in 0..(Len(save_writes(media_list)[k]) - 1) :
              /\ output' = save_failing(media_list, k, n).written
              /\ save_result' = save_failing(media_list, k, n).result
    /\ pc' = "save_failed"
    /\ UNCHANGED << fn, data, locals, media_list, reparsed, playlist, lookup >>

\* playlist.playlist_link(name) on the Playlist read_playlist returned
PlaylistLink ==
    /\ pc = "returned"
    /\ fn = "read_playlist"
    /\ locals.err = NoError
    /\ \E name \in LinkNames :
          lookup' = [name |-> name, link |-> playlist_link(playlist, name)]
    /\ pc' = "looked_up"
    /\ UNCHANGED << fn, data, locals, media_list, output, reparsed, playlist, save_result >>

\* read_media_list on the saved text
Reparse ==
    /\ pc = "saved"
    /\ reparsed' = read_media_list(output)
    /\ pc' = "reparsed"
    /\ UNCHANGED << fn, data, locals, media_list, output, playlist, save_result, lookup >>

(***************************************************************************)
(* Spec: read_media_list, the caller's filter, save and a second parse     *)
(***************************************************************************)
MaxLines == 4

MaxSegmentLines == 6

\* lines of every kind that read_media_list accepts, and a raw line
PipelineLines ==
    { "#EXT-X-MEDIA-SEQUENCE:4508",
      "#EXT-X-PROGRAM-DATE-TIME:a",
      "#EXTINF:2.0007,ad",
      "u.ts",
      "#EXT-X-DISCONTINUITY",
      "#EXT-X-DATERANGE:ID=\"a,b\",X=1",
      "#EXT-X-FOO:bar" }

\* the lines of segments, for longer lists of them; the last one reaches
\* read_media_list as a line that ends in a carriage return
SegmentLines ==
    { "#EXTINF:2.000,live",
      "u.ts",
      "v\r\r" }

Init ==
    Start("read_media_list",
          {"#EXTM3U\n" \o b : b \in Bodies(PipelineLines, MaxLines)
                                      \cup Bodies(SegmentLines, MaxSegmentLines)})

Next ==
    \/ ReadHeader
    \/ ReadMediaListLine
    \/ ReadMediaListReturn
    \/ Retain
    \/ Save
    \/ Reparse

Spec == Init /\ [][Next]_vars

(***************************************************************************)
(* Properties of Spec                                                      *)
(***************************************************************************)
\* the lines of the input after the header, as read_media_list sees them
InputLines == lines(Drop(data, Len("#EXTM3U\n")))

\* the MediaList the first parse returned, before any filtering
Parsed == read_media_list(data).list

\* the pieces of s that end in "\n", without it (s is a sequence of such pieces)
RECURSIVE SplitLines(_)
SplitLines(s) ==
    LET p == FindNewline(s, 0)
    IN  IF p = 0 THEN << >>
        ELSE << Take(s, p - 1) >> \o SplitLines(Drop(s, p))

\* the number of lines save writes for segment g
SegmentLineCount(g) == IF g.program_date_time # None THEN 3 ELSE 2

RECURSIVE SegmentLinesBefore(_, _)
SegmentLinesBefore(segs, j) ==
    IF j <= 1 THEN 0
    ELSE SegmentLinesBefore(segs, j - 1) + SegmentLineCount(segs[j - 1])

\* the positions in the output of save(m) of the lines of segment j of m
SegmentLinePositions(m, j) ==
    LET o == 4 + Len(m.ext_infos) + SegmentLinesBefore(m.media_segments, j)
    IN  (o + 1)..(o + SegmentLineCount(m.media_segments[j]))

Unfiltered == media_list = Parsed

NoTrailingCR == \A j \in 1..Len(InputLines) : ~EndsWith(InputLines[j], "\r")

\* C1 as stated: after parse, save and a second parse of an accepted text, the
\* second parse succeeds and its media_segments equal those of the first parse
\* in duration, title, uri and program_date_time
C1_RoundTripExact ==
    (pc = "reparsed" /\ Unfiltered) =>
        /\ reparsed.err = NoError
        /\ reparsed.list.media_segments = media_list.media_segments

\* C1 amended: when no input line ends in a carriage return, the second parse
\* succeeds and every segment keeps its title, uri and program_date_time, and
\* its duration becomes the first duration rounded to three decimal places, so
\* the duration is kept when it has at most three fractional digits
C1_RoundTripRounded ==
    (pc = "reparsed" /\ Unfiltered /\ NoTrailingCR) =>
        LET a == media_list.media_segments
            b == reparsed.list.media_segments
        IN  /\ reparsed.err = NoError
            /\ Len(b) = Len(a)
            /\ \A j \in 1..Len(a) :
                  /\ b[j].title = a[j].title
                  /\ b[j].uri = a[j].uri
                  /\ b[j].program_date_time = a[j].program_date_time
                  /\ b[j].duration = Normalize(RoundMilli(a[j].duration), 3)
                  /\ a[j].duration.e <= 3 => b[j].duration = a[j].duration

\* a round trip of a segment with a program_date_time whose duration is rounded
C1_Witness ==
    /\ pc = "reparsed" /\ Unfiltered /\ NoTrailingCR
    /\ \E j \in 1..Len(media_list.media_segments) :
          /\ media_list.media_segments[j].program_date_time # None
          /\ media_list.media_segments[j].duration.e > 3
    /\ media_list.ext_infos # << >>

\* the positions, in the output of save(m), of the lines of the items the
\* caller keeps: the four header lines, the kept ext_infos, the kept segments
KeptLinePositions(m, ks, ke) ==
    (1..4) \cup {4 + j : j \in ke}
           \cup UNION {SegmentLinePositions(m, j) : j \in ks}

\* C3: when the caller removes segments and ext_infos before save, the output
\* is the output for the unfiltered list without the lines of the removed
\* items: the header lines, the lines of the remaining ext_infos and of the
\* remaining segments, in their original order
C3_FilterThenSave ==
    pc \in {"saved", "reparsed"} =>
        LET P    == Parsed
            full == SplitLines(save(P))
            out  == SplitLines(output)
        IN  \A ks \in SUBSET (1..Len(P.media_segments)),
               ke \in SUBSET (1..Len(P.ext_infos)) :
                media_list = retain(P, ks, ke) =>
                    out = SelectAt(full, KeptLinePositions(P, ks, ke), 1)

\* a save after the caller removed one of three or more segments
C3_Witness ==
    /\ pc = "saved"
    /\ Len(media_list.media_segments) >= 2
    /\ Len(media_list.media_segments) < Len(Parsed.media_segments)

\* the line save writes for ext_info e: the tag, and after a colon its attributes
IsExtInfoLine(l, e) ==
    IF e.ext_type = Discontinuity THEN l = "#EXT-X-DISCONTINUITY"
    ELSE IF e.ext_type = DateRange THEN StartsWith(l, "#EXT-X-DATERANGE:")
    ELSE e.ext_type.tag = "Unknown" /\ StartsWith(l, "#EXT-X-" \o e.ext_type.name \o ":")

\* the lines ls[o+1], .. are those of segment g: an optional PROGRAM-DATE-TIME
\* line, the EXTINF line and the URI line
IsSegmentAt(ls, o, g) ==
    LET k == IF g.program_date_time # None THEN 1 ELSE 0
    IN  /\ o + k + 2 <= Len(ls)
        /\ g.program_date_time # None =>
              ls[o + 1] = "#EXT-X-PROGRAM-DATE-TIME:" \o g.program_date_time[1]
        /\ StartsWith(ls[o + k + 1], "#EXTINF:")
        /\ g.title # None => EndsWith(ls[o + k + 1], "," \o g.title[1])
        /\ ls[o + k + 2] = g.uri

IsScalarLine(l) ==
    \/ StartsWith(l, "#EXT-X-VERSION:")
    \/ StartsWith(l, "#EXT-X-TARGETDURATION:")
    \/ StartsWith(l, "#EXT-X-MEDIA-SEQUENCE:")

\* C10: the output of save is the #EXTM3U line, one VERSION, one TARGETDURATION
\* and one MEDIA-SEQUENCE line with the values of the struct's fields, then one
\* line for each ext_info in stored order, then for each segment in stored
\* order an optional PROGRAM-DATE-TIME line, the EXTINF line and the URI line,
\* and nothing else, so that no ext_info line follows a segment line
C10_SaveLayout ==
    pc \in {"saved", "reparsed"} =>
        LET m  == media_list
            ls == SplitLines(output)
            ne == Len(m.ext_infos)
            ns == Len(m.media_segments)
        IN  /\ Join([j \in 1..Len(ls) |-> ls[j] \o "\n"], "") = output
            /\ Len(ls) = 4 + ne + SegmentLinesBefore(m.media_segments, ns + 1)
            /\ ls[1] = "#EXTM3U"
            /\ ls[2] = "#EXT-X-VERSION:" \o Dec(m.version)
            /\ ls[3] = "#EXT-X-TARGETDURATION:" \o Dec(m.target_duration)
            /\ ls[4] = "#EXT-X-MEDIA-SEQUENCE:" \o m.media_sequence
            /\ \A j \in 1..ne : IsExtInfoLine(ls[4 + j], m.ext_infos[j]) /\ ~IsScalarLine(ls[4 + j])
            /\ \A j \in 1..ns :
                  IsSegmentAt(ls, 4 + ne + SegmentLinesBefore(m.media_segments, j),
                              m.media_segments[j])

\* a saved list with an ext_info and a segment with a program_date_time
C10_Witness ==
    /\ pc = "saved"
    /\ media_list.ext_infos # << >>
    /\ \E j \in 1..Len(media_list.media_segments) :
          media_list.media_segments[j].program_date_time # None

(***************************************************************************)
(* SpecParse: read_playlist and read_media_list on texts with and without  *)
(* the header                                                              *)
(***************************************************************************)
MaxParseLines == 4

MediaParseLines ==
    { "#EXT-X-VERSION:3",
      "#EXT-X-VERSION:7",
      "#EXT-X-TARGETDURATION:6",
      "#EXT-X-TARGETDURATION:9",
      "#EXT-X-MEDIA-SEQUENCE:4508",
      "#EXT-X-MEDIA-SEQUENCE:1",
      "#EXTINF:2.000,live",
      "#EXTINF:2.000,",
      "u.ts" }

PlaylistLines ==
    { "#EXT-X-STREAM-INF:BANDWIDTH=1,URI=x",
      "#EXT-X-STREAM-INF:VIDEO=\"c\"",
      "#EXT-X-MEDIA:NAME=\"n\",GROUP-ID=\"c\"",
      "#EXT-X-FOO",
      "http://a/c.m3u8" }

\* beginnings of a text that are not the header line
BadHeaders == { "", "#EXTM3U", "EXTM3U\n", "#EXTM3U\r\n", " #EXTM3U\n", "#EXT-X-M3U\n" }

ParseTexts(pool) ==
    {"#EXTM3U\n" \o b : b \in Bodies(pool, MaxParseLines)}
        \cup {h \o b : h \in BadHeaders, b \in Bodies(pool, 1)}

InitParse ==
    \/ Start("read_media_list", ParseTexts(MediaParseLines))
    \/ Start("read_playlist", ParseTexts(PlaylistLines))

NextParse ==
    \/ ReadHeader
    \/ ReadPlaylistLine
    \/ ReadPlaylistReturn
    \/ ReadMediaListLine
    \/ ReadMediaListReturn

SpecParse == InitParse /\ [][NextParse]_vars

(***************************************************************************)
(* Properties of SpecParse                                                 *)
(***************************************************************************)
HasHeader == Len(data) >= 8 /\ Take(data, 7) = "#EXTM3U" /\ Ch(data, 8) = "\n"

ReturnedOk(f) == pc = "returned" /\ fn = f /\ locals.err = NoError

\* line l is a tag line that read_media_list resolves to ext type t
IsMediaTag(l, t) == ext_type_str(l).ok /\ MediaExtType_from(ext_type_str(l).out) = t

\* line l is a tag line that read_playlist resolves to ext type t
IsPlaylistTag(l, t) == ext_type_str(l).ok /\ PlaylistExtType_from(ext_type_str(l).out) = t

\* the text after the tag name and its colon
Remainder(l) == ext_type_str(l).rest

\* the positions from p on of the lines of ls that are read as tag lines by
\* read_media_list: every line but the one after an EXTINF tag line
RECURSIVE MediaTagPositions(_, _)
MediaTagPositions(ls, p) ==
    IF p > Len(ls) THEN << >>
    ELSE << p >> \o MediaTagPositions(ls, IF IsMediaTag(ls[p], Inf) THEN p + 2 ELSE p + 1)

\* the same for read_playlist: every line but the one after a STREAM-INF tag line
RECURSIVE PlaylistTagPositions(_, _)
PlaylistTagPositions(ls, p) ==
    IF p > Len(ls) THEN << >>
    ELSE << p >> \o PlaylistTagPositions(ls, IF IsPlaylistTag(ls[p], StreamInf) THEN p + 2 ELSE p + 1)

Range(f) == {f[j] : j \in DOMAIN f}

Max(S) == CHOOSE x \in S : \A y \in S : y <= x

\* C2: read_playlist and read_media_list return NomError and no playlist for a
\* text that does not start with "#EXTM3U\n", and for a text that starts with it
\* they fail, if at all, at one of the lines after it
C2_HeaderCheck ==
    pc # "call" =>
        IF HasHeader
        THEN locals.err # NoError => Len(locals.remaining_lines) < Len(InputLines)
        ELSE /\ pc = "returned"
             /\ locals.err = NomError(data, "Tag")
             /\ locals.ext_infos = << >>
             /\ media_list = NoMediaList

\* read_playlist returned on a text that has "#EXTM3U" but no newline after it
C2_Witness ==
    /\ pc = "returned"
    /\ fn = "read_playlist"
    /\ StartsWith(data, "#EXTM3U")
    /\ ~HasHeader
    /\ locals.err.kind = "NomError"

\* the input is a text whose last line is read as an EXTINF tag line
DanglingInf ==
    LET tp == MediaTagPositions(InputLines, 1)
    IN  /\ HasHeader
        /\ InputLines # << >>
        /\ Len(InputLines) \in Range(tp)
        /\ IsMediaTag(InputLines[Len(InputLines)], Inf)

\* s without its last line
RECURSIVE DropLastLine(_)
DropLastLine(s) ==
    IF s = "" THEN s
    ELSE LET t == Take(s, Len(s) - 1)
         IN  IF t = "" \/ EndsWith(t, "\n") THEN t ELSE DropLastLine(t)

\* C5: when the last line is an EXTINF tag line, read_media_list succeeds and
\* returns what it returns for the text without that line (whenever it accepts
\* that text)
C5_DanglingInfDropped ==
    (pc = "returned" /\ fn = "read_media_list" /\ DanglingInf
        /\ read_media_list(DropLastLine(data)).err = NoError) =>
            /\ locals.err = NoError
            /\ media_list = read_media_list(DropLastLine(data)).list

\* the entries of a returned Playlist against the tag lines of the input
StreamInfPaired(ls, entries) ==
    LET tp == PlaylistTagPositions(ls, 1)
    IN  /\ Len(entries) = Len(tp)
        /\ \A k \in 1..Len(tp) :
              LET l == ls[tp[k]]
              IN  /\ IsPlaylistTag(l, entries[k].ext_type)
                  /\ IsPlaylistTag(l, StreamInf) =>
                        IF tp[k] < Len(ls)
                        THEN get(entries[k].attributes, "URI") = Some(ls[tp[k] + 1])
                        ELSE entries[k].attributes = attributes(Remainder(l)).out

\* C6: in the Playlist read_playlist returns, the entry of a STREAM-INF tag line
\* that has a line after it maps URI to that line, and that line gives no entry
\* of its own; the entry of a STREAM-INF tag line without a line after it has
\* the attributes of the tag line alone; and read_playlist never fails at a
\* STREAM-INF tag line
C6_StreamInfUri ==
    (pc = "returned" /\ fn = "read_playlist" /\ HasHeader) =>
        IF locals.err = NoError
        THEN StreamInfPaired(InputLines, locals.ext_infos)
        ELSE ~IsPlaylistTag(InputLines[Len(InputLines) - Len(locals.remaining_lines)], StreamInf)

\* a Playlist with a STREAM-INF entry whose own URI attribute was replaced by
\* the next line, and a last STREAM-INF tag line without a next line
C6_Witness ==
    /\ ReturnedOk("read_playlist")
    /\ Len(InputLines) = 3
    /\ InputLines[1] = "#EXT-X-STREAM-INF:BANDWIDTH=1,URI=x"
    /\ IsPlaylistTag(InputLines[3], StreamInf)
    /\ Len(locals.ext_infos) = 2

\* the value of the last tag line of ext type t in the input, or zero
LastScalar(ls, t, zero, parse(_)) ==
    LET tp == MediaTagPositions(ls, 1)
        ps == {p \in Range(tp) : IsMediaTag(ls[p], t)}
    IN  IF ps = {} THEN zero ELSE parse(Remainder(ls[Max(ps)])).out

\* C7: after a successful read_media_list, version, target_duration and
\* media_sequence are the values of the last VERSION, TARGETDURATION and
\* MEDIA-SEQUENCE tag lines of the input, wherever they are, and 0 without one
C7_LastScalarWins ==
    ReturnedOk("read_media_list") =>
        /\ media_list.version = LastScalar(InputLines, Version, 0, parse_u8)
        /\ media_list.target_duration = LastScalar(InputLines, TargetDuration, 0, parse_u8)
        /\ media_list.media_sequence = LastScalar(InputLines, MediaSequence, "0", parse_u32)

\* a list from a text with two VERSION tag lines of different values around
\* another tag line
C7_Witness ==
    /\ ReturnedOk("read_media_list")
    /\ Len(InputLines) = 3
    /\ IsMediaTag(InputLines[1], Version)
    /\ IsMediaTag(InputLines[3], Version)
    /\ InputLines[1] # InputLines[3]
    /\ media_list.target_duration # 0

(***************************************************************************)
(* SpecPdt: read_media_list on texts with PROGRAM-DATE-TIME tag lines      *)
(***************************************************************************)
\* two PROGRAM-DATE-TIME tag lines, a segment, and a tag line of every kind
\* that may stand between them
PdtLines ==
    { "#EXT-X-PROGRAM-DATE-TIME:a",
      "#EXT-X-PROGRAM-DATE-TIME:b",
      "#EXTINF:2.000,live",
      "u.ts",
      "#EXT-X-DISCONTINUITY",
      "#EXT-X-DATERANGE:ID=1",
      "#EXT-X-FOO:bar",
      "#EXT-X-VERSION:3" }

PdtSegmentLines ==
    { "#EXT-X-PROGRAM-DATE-TIME:a",
      "#EXT-X-PROGRAM-DATE-TIME:b",
      "#EXTINF:2.000,live",
      "u.ts" }

InitPdt ==
    Start("read_media_list",
          {"#EXTM3U\n" \o b : b \in Bodies(PdtLines, MaxLines)
                                      \cup Bodies(PdtSegmentLines, MaxSegmentLines)})

NextPdt ==
    \/ ReadHeader
    \/ ReadMediaListLine
    \/ ReadMediaListReturn

SpecPdt == InitPdt /\ [][NextPdt]_vars

(***************************************************************************)
(* Properties of SpecPdt                                                   *)
(***************************************************************************)
\* the positions of the EXTINF tag lines that have a line after them
SegmentTagPositions(ls) ==
    SelectSeq(MediaTagPositions(ls, 1),
              LAMBDA p : IsMediaTag(ls[p], Inf) /\ p < Len(ls))

\* the positions of the PROGRAM-DATE-TIME tag lines
DateTagPositions(ls) ==
    {p \in Range(MediaTagPositions(ls, 1)) : IsMediaTag(ls[p], ProgramDateTime)}

\* C4: the program_date_time of every segment is the remainder of the last
\* PROGRAM-DATE-TIME tag line between the previous segment (or the header) and
\* the segment's EXTINF line, whatever other tag lines stand between, and None
\* when there is no such line; so a PROGRAM-DATE-TIME tag goes to at most one
\* segment and a later tag replaces an earlier one that no segment took
C4_DateThreading ==
    ReturnedOk("read_media_list") =>
        LET ls   == InputLines
            infs == SegmentTagPositions(ls)
            segs == media_list.media_segments
        IN  /\ Len(segs) = Len(infs)
            /\ \A k \in 1..Len(infs) :
                  LET lo    == IF k = 1 THEN 0 ELSE infs[k - 1] + 1
                      dates == {p \in DateTagPositions(ls) : lo < p /\ p < infs[k]}
                  IN  segs[k].program_date_time =
                          IF dates = {} THEN None ELSE Some(Remainder(ls[Max(dates)]))
            /\ Cardinality({k \in 1..Len(segs) : segs[k].program_date_time # None})
                  <= Cardinality(DateTagPositions(ls))

\* two PROGRAM-DATE-TIME tag lines before a first segment, which gets the
\* second, and a second segment, which gets none
C4_Witness ==
    /\ ReturnedOk("read_media_list")
    /\ Len(media_list.media_segments) = 2
    /\ Len(InputLines) = 6
    /\ InputLines[1] = "#EXT-X-PROGRAM-DATE-TIME:a"
    /\ media_list.media_segments[1].program_date_time = Some("b")
    /\ media_list.media_segments[2].program_date_time = None

(***************************************************************************)
(* SpecAttr: attributes on attribute lists                                 *)
(***************************************************************************)
MaxPairs == 4

\* pairs with bare and quoted values, keys that occur with two values, the key
\* UNKNOWN, and two pieces that are no pairs
AttrPieces ==
    { "TYPE=VIDEO",
      "TYPE=AUDIO",
      "CODECS=\"avc1.4D401F,mp4a.40.2\"",
      "CODECS=\"a,b\"",
      "NAME=\"720p60\"",
      "DEFAULT=YES",
      "UNKNOWN=33064.367",
      "BAD",
      "K=" }

\* the lists of at most n pieces, joined by commas
RECURSIVE AttrLists(_)
AttrLists(n) ==
    IF n = 0 THEN {""}
    ELSE IF n = 1 THEN {""} \cup AttrPieces
    ELSE LET A == AttrLists(n - 1)
         IN  A \cup {a \o "," \o q : a \in A \ {""}, q \in AttrPieces}

InitAttr ==
    /\ fn = "attributes"
    /\ data \in AttrLists(MaxPairs)
    /\ pc = "call"
    /\ locals = Locals(<< >>)
    /\ media_list = NoMediaList
    /\ playlist = NoPlaylist
    /\ output = ""
    /\ reparsed = NotReparsed
    /\ save_result = NoError
    /\ lookup = NoLookup

NextAttr ==
    \/ Attributes
    \/ RejoinAttributes

SpecAttr == InitAttr /\ [][NextAttr]_vars

(***************************************************************************)
(* Properties of SpecAttr                                                  *)
(***************************************************************************)
\* the positions of the commas of s that are outside double quotes: those with
\* an even number of quote characters before them
CommasOutsideQuotes(s) ==
    LET quotes == {k \in 1..Len(s) : Ch(s, k) = "\""}
    IN  {j \in 1..Len(s) :
            Ch(s, j) = "," /\ Cardinality({k \in quotes : k < j}) % 2 = 0}

\* the pieces of s from position start on, cut at the positions in commas
RECURSIVE PiecesFrom(_, _, _)
PiecesFrom(s, commas, start) ==
    LET later == {j \in commas : j >= start}
    IN  IF later = {} THEN << SubSeq(s, start, Len(s)) >>
        ELSE LET c == CHOOSE j \in later : \A k \in later : j <= k
             IN  << SubSeq(s, start, c - 1) >> \o PiecesFrom(s, commas, c + 1)

\* the pieces of s between the commas that are outside double quotes
Pieces(s) == IF s = "" THEN << >> ELSE PiecesFrom(s, CommasOutsideQuotes(s), 1)

HasChar(s, c) == \E j \in 1..Len(s) : Ch(s, j) = c

PieceKey(q) == Take(q, SpanNot({"="}, q, 0))

PieceValue(q) == Drop(q, SpanNot({"="}, q, 0) + 1)

IsQuotedValue(v) ==
    /\ Len(v) >= 3
    /\ Ch(v, 1) = "\""
    /\ Ch(v, Len(v)) = "\""
    /\ ~HasChar(SubSeq(v, 2, Len(v) - 1), "\"")

IsBareValue(v) == v # "" /\ ~HasChar(v, "\"") /\ ~HasChar(v, ",")

\* every piece is key=value with a bare or a quoted value
WellFormedAttrList(s) ==
    LET ps == Pieces(s)
    IN  \A j \in 1..Len(ps) :
          LET q == ps[j]
          IN  /\ HasChar(q, "=")
              /\ PieceKey(q) # ""
              /\ (IsQuotedValue(PieceValue(q)) \/ IsBareValue(PieceValue(q)))

AttrReturned == pc = "returned" /\ fn = "attributes"

\* piece j is the last piece of ps with its key
IsLastOfKey(ps, j) == \A k \in (j + 1)..Len(ps) : PieceKey(ps[k]) # PieceKey(ps[j])

\* C8: a pair whose value is in double quotes gives one entry whose value is
\* the whole quoted text with its quotes, commas included, and no comma inside
\* quotes starts a pair: every key of the map is the key of a piece
C8_QuotedValue ==
    (AttrReturned /\ WellFormedAttrList(data)) =>
        LET ps == Pieces(data)
            m  == locals.attributes_map
        IN  /\ \A j \in 1..Len(ps) :
                  (IsQuotedValue(PieceValue(ps[j])) /\ IsLastOfKey(ps, j)) =>
                      get(m, PieceKey(ps[j])) = Some(PieceValue(ps[j]))
            /\ \A e \in 1..Len(m) : \E j \in 1..Len(ps) : m[e][1] = PieceKey(ps[j])
            /\ locals.i = ""

\* the list of the test, followed by another pair
C8_Witness ==
    /\ AttrReturned
    /\ data = "CODECS=\"avc1.4D401F,mp4a.40.2\",TYPE=VIDEO"
    /\ locals.attributes_map
          = << << "CODECS", "\"avc1.4D401F,mp4a.40.2\"" >>, << "TYPE", "VIDEO" >> >>

\* the elements of ks in the order of their first occurrence
RECURSIVE FirstOccurrences(_, _)
FirstOccurrences(ks, seen) ==
    IF ks = << >> THEN << >>
    ELSE IF ks[1] \in seen THEN FirstOccurrences(Tail(ks), seen)
    ELSE << ks[1] >> \o FirstOccurrences(Tail(ks), seen \cup {ks[1]})

\* C9: for a well-formed attribute list the keys of the map are the keys of
\* the pairs in the order of their first occurrence, each once, and the value
\* of a key is the value of the last pair with that key
C9_OrderAndDuplicates ==
    (AttrReturned /\ WellFormedAttrList(data)) =>
        LET ps == Pieces(data)
            m  == locals.attributes_map
        IN  /\ [e \in 1..Len(m) |-> m[e][1]]
                  = FirstOccurrences([j \in 1..Len(ps) |-> PieceKey(ps[j])], {})
            /\ \A j \in 1..Len(ps) :
                  IsLastOfKey(ps, j) => get(m, PieceKey(ps[j])) = Some(PieceValue(ps[j]))

\* a list in which the first key occurs again with another value after a second key
C9_Witness ==
    /\ AttrReturned
    /\ WellFormedAttrList(data)
    /\ Len(Pieces(data)) = 3
    /\ PieceKey(Pieces(data)[1]) = PieceKey(Pieces(data)[3])
    /\ PieceValue(Pieces(data)[1]) # PieceValue(Pieces(data)[3])
    /\ Len(locals.attributes_map) = 2

(***************************************************************************)
(* SpecLines: read_media_list and read_playlist on texts of lines that     *)
(* they accept and lines that they reject, by family of lines              *)
(***************************************************************************)
MaxTagLines == 3

\* lines read_media_list rejects with each kind of error (a value out of
\* range, a duration that is no number, a line that is no tag, a tag without
\* remainder) among lines it accepts
FailLines ==
    { "#EXT-X-VERSION:3",
      "#EXT-X-VERSION:256",
      "#EXTINF:abc,t",
      "#EXTINF:2.000,live",
      "u.ts",
      "#EXT-X-FOO",
      "#EXT-X-DATERANGE:ID=1" }

\* tag lines that resolve to Unknown, with a remainder, with an empty one and
\* without colon, among them a name with two "-X-" and one that ends the list
UnknownLines ==
    { "#EXT-X-FOO:bar",
      "#EXT-X-FOO:a=b,c",
      "#EXT-X-FOO:",
      "#EXT-X-ENDLIST",
      "#EXT-X--X-BAR:v",
      "#EXT-X-VERSION:3" }

\* EXTINF tag lines with a title, with an empty title, with commas in the
\* title and without comma, and a line for their URI
InfLines ==
    { "#EXTINF:2.000,live",
      "#EXTINF:2.000,",
      "#EXTINF:2.000,a,b",
      "#EXTINF:4.5,,x",
      "#EXTINF:2.000",
      "u.ts" }

\* scalar tag lines with values at and one above the bounds of u8 and u32,
\* with a sign, with leading zeros and with text that is no number
ScalarLines ==
    { "#EXT-X-VERSION:255",
      "#EXT-X-VERSION:256",
      "#EXT-X-VERSION:-1",
      "#EXT-X-VERSION:abc",
      "#EXT-X-VERSION:007",
      "#EXT-X-VERSION:+7",
      "#EXT-X-TARGETDURATION:0",
      "#EXT-X-TARGETDURATION:256",
      "#EXT-X-MEDIA-SEQUENCE:4294967295",
      "#EXT-X-MEDIA-SEQUENCE:4294967296",
      "#EXT-X-MEDIA-SEQUENCE:-1" }

\* a tag line of every ext type, DISCONTINUITY also with a remainder, and a
\* line for the URI of a segment
KindLines ==
    { "#EXT-X-DISCONTINUITY",
      "#EXT-X-DISCONTINUITY:x=1",
      "#EXT-X-DATERANGE:ID=1",
      "#EXT-X-FOO:bar",
      "#EXT-X-VERSION:3",
      "#EXT-X-TARGETDURATION:6",
      "#EXT-X-MEDIA-SEQUENCE:1",
      "#EXT-X-PROGRAM-DATE-TIME:a",
      "#EXTINF:2.000,live",
      "u.ts" }

\* a blank line, a line that is only a carriage return, a raw line and a tag
\* line after a space among tag lines of read_media_list, one of them EXTINF
RawMediaLines ==
    { "",
      "\r",
      "u.ts",
      " #EXT-X-VERSION:3",
      "#EXTINF:2.000,live",
      "#EXT-X-VERSION:3",
      "#EXT-X-VERSION:abc" }

\* a blank line and a raw line among tag lines of read_playlist, one of them
\* STREAM-INF, and a line that is only the prefix
RawPlaylistLines ==
    { "",
      "a.m3u8",
      "#EXT-X-STREAM-INF:BANDWIDTH=1",
      "#EXT-X-MEDIA:NAME=\"n\"",
      "#EXT" }

TagTexts(pool) == {"#EXTM3U\n" \o b : b \in Bodies(pool, MaxTagLines)}

InitLines ==
    \/ Start("read_media_list", TagTexts(FailLines))
    \/ Start("read_media_list", TagTexts(UnknownLines))
    \/ Start("read_media_list", TagTexts(InfLines))
    \/ Start("read_media_list", TagTexts(ScalarLines))
    \/ Start("read_media_list", TagTexts(KindLines))
    \/ Start("read_playlist", TagTexts(PlaylistLines))
    \/ Start("read_media_list", TagTexts(RawMediaLines))
    \/ Start("read_playlist", TagTexts(RawPlaylistLines))

NextLines ==
    \/ ReadHeader
    \/ ReadPlaylistLine
    \/ ReadPlaylistReturn
    \/ ReadMediaListLine
    \/ ReadMediaListReturn

SpecLines == InitLines /\ [][NextLines]_vars

(***************************************************************************)
(* Properties of SpecLines                                                 *)
(***************************************************************************)
\* the text of the header line and the lines ls
TextOf(ls) == "#EXTM3U\n" \o Join([j \in 1..Len(ls) |-> ls[j] \o "\n"], "")

\* the error of one iteration of the loop of function f that starts at line p
\* of ls with fresh locals
LineError(f, ls, p) ==
    LET L == Locals(SubSeq(ls, p, Len(ls)))
    IN  IF f = "read_playlist" THEN read_playlist_line(L).err
        ELSE read_media_list_line(L).err

TagPositions(f, ls) ==
    IF f = "read_playlist" THEN PlaylistTagPositions(ls, 1) ELSE MediaTagPositions(ls, 1)

\* the positions of the tag lines of ls whose iteration fails
FailingPositions(f, ls) ==
    {p \in Range(TagPositions(f, ls)) : LineError(f, ls, p) # NoError}

Min(S) == CHOOSE x \in S : \A y \in S : x <= y

\* Err or Ok of function f on text t
ResultOf(f, t) ==
    IF f = "read_playlist" THEN read_playlist(t).err ELSE read_media_list(t).err

\* the call returned the error of the earliest failing line and no structure
FailsAtEarliest ==
    LET bad == FailingPositions(fn, InputLines)
    IN  /\ (locals.err = NoError) = (bad = {})
        /\ locals.err # NoError =>
              /\ locals.err = LineError(fn, InputLines, Min(bad))
              /\ media_list = NoMediaList
              /\ playlist = NoPlaylist

\* C11 as stated: a call that fails returns the error of the earliest failing
\* line and no structure, and returns the same on the text cut after that line
C11_FailFastAtLine ==
    (pc = "returned" /\ HasHeader) =>
        /\ FailsAtEarliest
        /\ locals.err # NoError =>
              LET p == Min(FailingPositions(fn, InputLines))
              IN  ResultOf(fn, TextOf(SubSeq(InputLines, 1, p))) = locals.err

\* C11: a call that fails returns the error of the earliest failing line and
\* no structure, and returns the same on the text cut after the lines the
\* failing iteration read (the tag line and, for an EXTINF tag line, the line
\* after it)
C11_FailFast ==
    (pc = "returned" /\ HasHeader) =>
        /\ FailsAtEarliest
        /\ locals.err # NoError =>
              LET k == Len(InputLines) - Len(locals.remaining_lines)
              IN  ResultOf(fn, TextOf(SubSeq(InputLines, 1, k))) = locals.err

\* read_media_list failed at the second of three lines, after an accepted
\* line that set a local
C11_Witness ==
    /\ pc = "returned"
    /\ fn = "read_media_list"
    /\ locals.err = ParseIntError
    /\ Len(InputLines) = 3
    /\ Len(locals.remaining_lines) = 1
    /\ locals.version = 3

\* a piece of the attribute list s has no "="
HasPairWithoutEquals(s) ==
    \E j \in 1..Len(Pieces(s)) : ~HasChar(Pieces(s)[j], "=")

\* C12: attributes fails with NomError on an attribute list that has a pair
\* without "=", alone or after valid pairs
C12_MalformedPairFails ==
    (AttrReturned /\ HasPairWithoutEquals(data)) => locals.err.kind = "NomError"

\* the number of lines of the input the loop has read
LinesRead == Len(InputLines) - Len(locals.remaining_lines)

\* line l is a tag line that read_media_list resolves to Unknown(name)
IsUnknownTag(l) ==
    ext_type_str(l).ok /\ MediaExtType_from(ext_type_str(l).out).tag = "Unknown"

\* the entry the claim gives to the Unknown tag line l
UnknownEntry(l) ==
    MediaExtInfo(MediaExtType_from(ext_type_str(l).out), << << "UNKNOWN", Remainder(l) >> >>)

\* C13: after read_media_list has read an Unknown tag line, whatever its
\* remainder, the Unknown entries of ext_infos are those of the Unknown tag
\* lines read so far, one each and in their order, with the single key UNKNOWN
\* mapped to the remainder
C13_UnknownVerbatim ==
    (fn = "read_media_list" /\ pc \in {"loop", "returned"} /\ HasHeader) =>
        LET ls == InputLines
            ps == SelectSeq(MediaTagPositions(ls, 1),
                            LAMBDA p : p <= LinesRead /\ IsUnknownTag(ls[p]))
        IN  SelectSeq(locals.ext_infos, LAMBDA e : e.ext_type.tag = "Unknown")
                = [j \in 1..Len(ps) |-> UnknownEntry(ls[ps[j]])]

\* the text of r before and after its first comma (r has one)
FirstComma(r) == Min({j \in 1..Len(r) : Ch(r, j) = ","})

BeforeComma(r) == Take(r, FirstComma(r) - 1)

AfterComma(r) == Drop(r, FirstComma(r))

\* the EXTINF tag lines read so far that have a line after them
InfPositionsRead(ls) ==
    SelectSeq(MediaTagPositions(ls, 1),
              LAMBDA p : p <= LinesRead /\ p < Len(ls) /\ IsMediaTag(ls[p], Inf))

\* C14: when every EXTINF tag line read so far that has a line after it is
\* "duration,title" with a duration that parses, the segments are those of
\* these lines: the title is None when the text after the first comma is empty
\* and else that whole text, further commas included
C14_InfTitle ==
    (fn = "read_media_list" /\ pc \in {"loop", "returned"} /\ HasHeader) =>
        LET ls == InputLines
            ps == InfPositionsRead(ls)
        IN  (\A j \in 1..Len(ps) :
                /\ HasChar(Remainder(ls[ps[j]]), ",")
                /\ parse_f64(BeforeComma(Remainder(ls[ps[j]]))).ok)
            => [j \in 1..Len(locals.media_segments) |-> locals.media_segments[j].title]
                 = [j \in 1..Len(ps) |->
                       IF AfterComma(Remainder(ls[ps[j]])) = "" THEN None
                       ELSE Some(AfterComma(Remainder(ls[ps[j]])))]

\* C15: rejoin_attributes gives the bare value when UNKNOWN is the only key of
\* the map, and in every other case all pairs as key=value joined by commas in
\* the order of the map
C15_RejoinSoleUnknown ==
    (pc = "rejoined" /\ fn = "attributes") =>
        LET m == locals.attributes_map
        IN  output = IF Len(m) = 1 /\ m[1][1] = "UNKNOWN" THEN m[1][2]
                     ELSE Join([j \in 1..Len(m) |-> m[j][1] \o "=" \o m[j][2]], ",")

(***************************************************************************)
(* SpecIo: read_media_list, then save on a sink that may fail              *)
(***************************************************************************)
MaxIoLines == 3

IoLines ==
    { "#EXT-X-PROGRAM-DATE-TIME:a",
      "#EXTINF:2.000,live",
      "u.ts",
      "#EXT-X-DISCONTINUITY",
      "#EXT-X-FOO:bar" }

InitIo ==
    Start("read_media_list", {"#EXTM3U\n" \o b : b \in Bodies(IoLines, MaxIoLines)})

NextIo ==
    \/ ReadHeader
    \/ ReadMediaListLine
    \/ ReadMediaListReturn
    \/ Save
    \/ SaveSinkFails

SpecIo == InitIo /\ [][NextIo]_vars

(***************************************************************************)
(* Properties of SpecIo                                                    *)
(***************************************************************************)
\* C16: when the sink fails during save, save returns IoError, the sink holds
\* a proper beginning of what a sink that never fails receives, and the whole
\* lines it holds are the first k-1 lines of that text, k being the line in
\* whose write the sink failed
C16_WriteFailure ==
    pc = "save_failed" =>
        LET full == save(media_list)
            done == SplitLines(output)
        IN  /\ save_result = IoError
            /\ Len(output) < Len(full)
            /\ output = Take(full, Len(output))
            /\ Len(done) < Len(SplitLines(full))
            /\ done = SubSeq(SplitLines(full), 1, Len(done))

\* the sink failed in the URI line of a segment, after the EXTINF line of the
\* same writeln! and a part of the URI
C16_Witness ==
    /\ pc = "save_failed"
    /\ save_result = IoError
    /\ Len(media_list.media_segments) = 1
    /\ Len(SplitLines(output)) = 5
    /\ EndsWith(output, "\nu.")

\* the digits of r, which is a numeral with an optional "+", without the sign
\* and the leading zeros
Magnitude(r) == StripZeros(IF StartsWith(r, "+") THEN Drop(r, 1) ELSE r)

IsNumeral(r) ==
    LET body == IF StartsWith(r, "+") THEN Drop(r, 1) ELSE r
    IN  body # "" /\ AllDigits(body)

\* the numeral r is at most 255
FitsU8(r) == Len(Magnitude(r)) <= 3 /\ NumeralVal(Magnitude(r), 0) <= 255

\* the numeral r is at most 4294967295 = 42949 * 10^5 + 67295
FitsU32(r) ==
    LET d  == Magnitude(r)
        hi == NumeralVal(Take(d, Len(d) - 5), 0)
        lo == NumeralVal(Drop(d, Len(d) - 5), 0)
    IN  \/ Len(d) < 10
        \/ Len(d) = 10 /\ (hi < 42949 \/ (hi = 42949 /\ lo <= 67295))

\* the scalar tag line l was accepted and set its field to its value
ScalarAccepted(l) ==
    /\ locals.err = NoError
    /\ IsMediaTag(l, Version) => locals.version = NumeralVal(Magnitude(Remainder(l)), 0)
    /\ IsMediaTag(l, TargetDuration) =>
          locals.target_duration = NumeralVal(Magnitude(Remainder(l)), 0)
    /\ IsMediaTag(l, MediaSequence) => locals.media_sequence = Magnitude(Remainder(l))

\* C17: after read_media_list has read a VERSION, TARGETDURATION or
\* MEDIA-SEQUENCE tag line with a remainder, the line was accepted when the
\* remainder is a numeral in 0..255 (in 0..4294967295 for MEDIA-SEQUENCE), and
\* otherwise the call has returned ParseIntError and no MediaList
C17_IntegerWidths ==
    (fn = "read_media_list" /\ pc \in {"loop", "returned"} /\ HasHeader
        /\ LinesRead >= 1 /\ LinesRead \in Range(MediaTagPositions(InputLines, 1))) =>
        LET l == InputLines[LinesRead]
            r == Remainder(l)
            fits == /\ IsNumeral(r)
                    /\ IF IsMediaTag(l, MediaSequence) THEN FitsU32(r) ELSE FitsU8(r)
        IN  (r # "" /\ \E t \in {Version, TargetDuration, MediaSequence} : IsMediaTag(l, t)) =>
                IF fits THEN ScalarAccepted(l)
                ELSE /\ pc = "returned"
                     /\ locals.err = ParseIntError
                     /\ media_list = NoMediaList

\* the parse failed at MEDIA-SEQUENCE:4294967296 after it accepted 4294967295
C17_Witness ==
    /\ pc = "returned"
    /\ fn = "read_media_list"
    /\ locals.err = ParseIntError
    /\ locals.media_sequence = "4294967295"
    /\ LinesRead = 2
    /\ InputLines[2] = "#EXT-X-MEDIA-SEQUENCE:4294967296"

(***************************************************************************)
(* SpecLink: read_playlist, then playlist_link                             *)
(***************************************************************************)
MaxLinkLines == 4

\* Media entries with the NAME looked up, with two GROUP-IDs and without one,
\* StreamInf entries with a VIDEO for each and without one, and two URI lines
LinkLines ==
    { "#EXT-X-MEDIA:NAME=\"n\",GROUP-ID=\"c\"",
      "#EXT-X-MEDIA:NAME=\"n\",GROUP-ID=\"d\"",
      "#EXT-X-MEDIA:NAME=\"n\"",
      "#EXT-X-STREAM-INF:VIDEO=\"c\"",
      "#EXT-X-STREAM-INF:VIDEO=\"d\"",
      "#EXT-X-STREAM-INF:BANDWIDTH=1",
      "a.m3u8",
      "b.m3u8" }

InitLink ==
    Start("read_playlist", {"#EXTM3U\n" \o b : b \in Bodies(LinkLines, MaxLinkLines)})

NextLink ==
    \/ ReadHeader
    \/ ReadPlaylistLine
    \/ ReadPlaylistReturn
    \/ PlaylistLink

SpecLink == InitLink /\ [][NextLink]_vars

(***************************************************************************)
(* Properties of SpecLink                                                  *)
(***************************************************************************)
\* the indices of the Media entries of es whose NAME is name
MediaNamed(es, name) ==
    {j \in 1..Len(es) : es[j].ext_type = Media /\ get(es[j].attributes, "NAME") = Some(name)}

\* the indices of the StreamInf entries of es whose VIDEO is group
StreamsOfGroup(es, group) ==
    {j \in 1..Len(es) : es[j].ext_type = StreamInf /\ get(es[j].attributes, "VIDEO") = Some(group)}

\* C18: playlist_link(name) is the URI of the first StreamInf entry whose VIDEO
\* is the GROUP-ID of the first Media entry whose NAME is name, and None when
\* there is no such Media entry, when it has no GROUP-ID, when there is no such
\* StreamInf entry or when it has no URI; the playlist is as it was
C18_PlaylistLink ==
    pc = "looked_up" =>
        LET es == playlist.ext_infos
            ms == MediaNamed(es, lookup.name)
            g  == get(es[Min(ms)].attributes, "GROUP-ID")
            ss == StreamsOfGroup(es, g[1])
        IN  /\ lookup.link =
                  IF ms = {} THEN None
                  ELSE IF g = None THEN None
                  ELSE IF ss = {} THEN None
                  ELSE get(es[Min(ss)].attributes, "URI")
            /\ playlist = Playlist(locals)

\* a lookup that finds, of two StreamInf entries of the group, the first; the
\* second has no URI
C18_Witness ==
    /\ pc = "looked_up"
    /\ lookup.link = Some("a.m3u8")
    /\ Len(playlist.ext_infos) = 3
    /\ playlist.ext_infos[1].ext_type = Media
    /\ get(playlist.ext_infos[3].attributes, "VIDEO") = get(playlist.ext_infos[2].attributes, "VIDEO")
    /\ get(playlist.ext_infos[3].attributes, "URI") = None

(***************************************************************************)
(* More properties of SpecParse                                            *)
(***************************************************************************)
\* read_playlist returned on a text whose last line is read as a STREAM-INF
\* tag line, and the text without that line is accepted
DanglingStreamInf ==
    /\ pc = "returned"
    /\ fn = "read_playlist"
    /\ HasHeader
    /\ InputLines # << >>
    /\ Len(InputLines) \in Range(PlaylistTagPositions(InputLines, 1))
    /\ IsPlaylistTag(InputLines[Len(InputLines)], StreamInf)
    /\ read_playlist(DropLastLine(data)).err = NoError

\* C19 as stated: a STREAM-INF tag line that is the last line is dropped:
\* read_playlist succeeds and returns the entries of the text without it
C19_DanglingStreamInfDropped ==
    DanglingStreamInf =>
        /\ locals.err = NoError
        /\ playlist = read_playlist(DropLastLine(data)).list

\* C19: a STREAM-INF tag line that is the last line is kept: read_playlist
\* succeeds and returns the entries of the text without it and then a
\* StreamInf entry with the attributes of the tag line alone
C19_DanglingStreamInfKept ==
    DanglingStreamInf =>
        /\ locals.err = NoError
        /\ playlist.ext_infos =
              Append(read_playlist(DropLastLine(data)).list.ext_infos,
                     PlaylistExtInfo(StreamInf,
                                     attributes(Remainder(InputLines[Len(InputLines)])).out))

\* a STREAM-INF entry with the URI of the line after it, then the entry of a
\* last STREAM-INF tag line, which has no URI
C19_Witness ==
    /\ DanglingStreamInf
    /\ locals.err = NoError
    /\ Len(playlist.ext_infos) = 2
    /\ get(playlist.ext_infos[1].attributes, "URI") = Some("http://a/c.m3u8")
    /\ playlist.ext_infos[2].ext_type = StreamInf
    /\ get(playlist.ext_infos[2].attributes, "URI") = None

(***************************************************************************)
(* More properties of SpecLines                                            *)
(***************************************************************************)
\* the tag lines of ls that give an ext_info: those that resolve to DateRange,
\* Discontinuity or Unknown
ExtInfoPositions(ls) ==
    SelectSeq(MediaTagPositions(ls, 1),
              LAMBDA p : \/ IsMediaTag(ls[p], DateRange)
                         \/ IsMediaTag(ls[p], Discontinuity)
                         \/ IsUnknownTag(ls[p]))

\* C20: after a successful read_media_list every ext_info has ext type
\* DateRange, Discontinuity or Unknown, none has Inf, ProgramDateTime, Version,
\* TargetDuration or MediaSequence, a Discontinuity ext_info has no attributes,
\* and the ext_infos are, in order, those of the DATERANGE, DISCONTINUITY and
\* unknown tag lines of the input
C20_ExtInfoKinds ==
    ReturnedOk("read_media_list") =>
        LET ls == InputLines
            ps == ExtInfoPositions(ls)
            es == media_list.ext_infos
        IN  /\ \A j \in 1..Len(es) :
                  /\ es[j].ext_type \in {DateRange, Discontinuity} \/ es[j].ext_type.tag = "Unknown"
                  /\ es[j].ext_type \notin {Inf, ProgramDateTime, Version, TargetDuration, MediaSequence}
                  /\ es[j].ext_type = Discontinuity => es[j].attributes = << >>
            /\ Len(es) = Len(ps)
            /\ \A j \in 1..Len(ps) : IsMediaTag(ls[ps[j]], es[j].ext_type)

\* a list from a scalar tag line, a DISCONTINUITY tag line with a remainder
\* and an unknown tag line
C20_Witness ==
    /\ ReturnedOk("read_media_list")
    /\ InputLines = << "#EXT-X-VERSION:3", "#EXT-X-DISCONTINUITY:x=1", "#EXT-X-FOO:bar" >>
    /\ media_list.version = 3
    /\ media_list.ext_infos = << MediaExtInfo(Discontinuity, << >>),
                                 MediaExtInfo(Unknown("FOO"), << << "UNKNOWN", "bar" >> >>) >>

\* the positions from p on of the lines of ls that are not the line after a
\* line that starts with prefix
RECURSIVE UnpairedPositions(_, _, _)
UnpairedPositions(ls, p, prefix) ==
    IF p > Len(ls) THEN << >>
    ELSE << p >> \o UnpairedPositions(ls, IF StartsWith(ls[p], prefix) THEN p + 2 ELSE p + 1,
                                       prefix)

\* the tag line whose next line the function takes as its URI
UriTagPrefix(f) == IF f = "read_playlist" THEN "#EXT-X-STREAM-INF:" ELSE "#EXTINF:"

\* the positions of the lines of ls that function f does not take as a URI and
\* that do not begin with "#EXT"
RawPositions(f, ls) ==
    {p \in Range(UnpairedPositions(ls, 1, UriTagPrefix(f))) : ~StartsWith(ls[p], "#EXT")}

\* C21: when a line that is not taken as the URI of a STREAM-INF or EXTINF tag
\* line does not begin with "#EXT", the call fails and returns no structure;
\* it reads no line after the first such line, and when it reads that line
\* the error is NomError with that line as its input and the code Tag
C21_UnpairedRawLineFails ==
    (pc = "returned" /\ HasHeader) =>
        LET ls  == InputLines
            raw == RawPositions(fn, ls)
            k   == Len(ls) - Len(locals.remaining_lines)
        IN  raw # {} =>
                /\ locals.err # NoError
                /\ media_list = NoMediaList
                /\ playlist = NoPlaylist
                /\ k <= Min(raw)
                /\ k = Min(raw) => locals.err = NomError(ls[k], "Tag")

\* read_media_list fails at a blank line that follows a segment whose URI is
\* a raw line
C21_Witness ==
    /\ pc = "returned"
    /\ fn = "read_media_list"
    /\ InputLines = << "#EXTINF:2.000,live", "u.ts", "" >>
    /\ locals.err = NomError("", "Tag")
    /\ Len(locals.media_segments) = 1
    /\ media_list = NoMediaList

(***************************************************************************)
(* SpecCanon: read_media_list, save and a second parse, on texts that are  *)
(* not in the form save writes                                             *)
(***************************************************************************)
MaxCanonLines == 3

\* scalar tag lines with leading zeros and a sign, DATERANGE tag lines with an
\* attribute named UNKNOWN, with a repeated key and with a quoted comma, a
\* DISCONTINUITY tag line with a remainder, unknown tag lines with two "-X-",
\* without "-X-" and with a value that ends in a carriage return, and a segment
CanonLines ==
    { "#EXT-X-VERSION:007",
      "#EXT-X-MEDIA-SEQUENCE:+7",
      "#EXT-X-DATERANGE:ID=1,UNKNOWN=x",
      "#EXT-X-DATERANGE:A=1,B=\"b,c\",A=2",
      "#EXT-X-DISCONTINUITY:x=1",
      "#EXT-X--X-BAR:v",
      "#EXTFOO:a=b,c",
      "#EXT-X-FOO:bar\r\r",
      "#EXT-X-PROGRAM-DATE-TIME:a",
      "#EXTINF:2.0007,a,b",
      "u.ts" }

InitCanon ==
    Start("read_media_list", {"#EXTM3U\n" \o b : b \in Bodies(CanonLines, MaxCanonLines)})

NextCanon ==
    \/ ReadHeader
    \/ ReadMediaListLine
    \/ ReadMediaListReturn
    \/ Save
    \/ Reparse

SpecCanon == InitCanon /\ [][NextCanon]_vars

(***************************************************************************)
(* Properties of SpecCanon                                                 *)
(***************************************************************************)
\* C22: after parse, save and a second parse of an accepted text, the second
\* parse succeeds, has the version, target_duration, media_sequence and
\* ext_infos of the first, and save writes for it the text it wrote before
C22_CanonicalFixedPoint ==
    pc = "reparsed" =>
        /\ reparsed.err = NoError
        /\ reparsed.list.version = media_list.version
        /\ reparsed.list.target_duration = media_list.target_duration
        /\ reparsed.list.media_sequence = media_list.media_sequence
        /\ reparsed.list.ext_infos = media_list.ext_infos
        /\ save(reparsed.list) = output

====
